---------------------------- MODULE Spec2Model ----------------------------
(***************************************************************************)
(* State-machine model of PlayerController                                 *)
(* (src/src/player/player.controller.ts): one playback session driving one *)
(* HTMLAudioElement.                                                       *)
(*                                                                         *)
(* JavaScript runs one task at a time.  A step of the model is either      *)
(*   - a call of a public method: its synchronous part, up to the first    *)
(*     await that really suspends;                                         *)
(*   - one microtask: the continuation of an await whose promise settled;  *)
(*     microtasks run first in, first out;                                 *)
(*   - one task of the event loop: an event of the audio element, a tick   *)
(*     of a fade's interval(), the setTimeout of destroy().  A task runs   *)
(*     only when no microtask is pending.                                  *)
(* Volumes are exact rationals <<n, d>>.  Times are in units of 100 ms,    *)
(* the period of a fade's interval.                                        *)
(***************************************************************************)
EXTENDS Integers, Sequences, FiniteSets, TLC

\* ---- bounds of the model ------------------------------------------------
\* number of steps of a fade: options.fadeTime / fadeOutInterval
FadeSteps == 2
\* duration of the track, in units of 100 ms
Duration == 3
\* number of public-method calls made on the session
MaxCalls == 3

\* ---- program constants ----------------------------------------------------
fadeOutInterval == 100

\* the unit of time is the period of a fade's interval
UnitsPerSecond == 1000 \div fadeOutInterval

\* ---- rationals ------------------------------------------------------------
RECURSIVE Gcd(_, _)
Gcd(a, b) == IF b = 0 THEN a ELSE Gcd(b, a % b)

Abs(x) == IF x < 0 THEN -x ELSE x

\* the rational n/d (d # 0) in lowest terms with a positive denominator
Rat(n, d) ==
  LET g == Gcd(Abs(n), Abs(d))
      s == IF d < 0 THEN -1 ELSE 1
  IN  <<(s * n) \div g, (s * d) \div g>>

RAdd(a, b) == Rat(a[1] * b[2] + b[1] * a[2], a[2] * b[2])
RSub(a, b) == Rat(a[1] * b[2] - b[1] * a[2], a[2] * b[2])
RDivInt(a, k) == Rat(a[1], a[2] * k)
RLeq(a, b) == a[1] * b[2] <= b[1] * a[2]
RMax(a, b) == IF RLeq(a, b) THEN b ELSE a
RMin(a, b) == IF RLeq(a, b) THEN a ELSE b
RZero == <<0, 1>>
ROne == <<1, 1>>
\* the near-silent volume 0.01 of fadeIn() and preload()
NearSilent == <<1, 100>>

\* Math.max(0, Math.min(1, v))
Clamp01(v) == RMax(RZero, RMin(ROne, v))

\* HTMLMediaElement.volume accepts exactly the values of [0, 1]; the setter
\* throws IndexSizeError for any other value and leaves the volume unchanged.
InRange(v) == RLeq(RZero, v) /\ RLeq(v, ROne)


\* ---- state ----------------------------------------------------------------
VARIABLES
  options,      \* this.options, fixed at construction
  status,       \* this.status.value: "null" | "playing" | "paused" | "ended"
  destroyed,    \* this.destroyed
  volume,       \* this.volume, the target volume
  currentTime,  \* this.currentTime.value
  totalTime,    \* this.totalTime.value, NoValue for null
  destroyEvent, \* TRUE once destroyEvent has emitted: the takeUntil(destroyEvent)
                \* subscriptions of the constructor are gone
  fades,        \* the live interval() subscriptions of fadeToVolume
  playerElement,\* the HTMLAudioElement
  events,       \* tasks queued on the media element's event task source
  micro,        \* the microtask queue: continuations of settled awaits
  timers,       \* pending setTimeout(destroyNow) timers, each its remaining ticks
  stored,       \* the Position Store's item under "progress-" + trackId, a text
  trace,        \* what the last step did, in order
  nStop,        \* number of onStop emissions so far
  autoStops,    \* number of stop() calls made by the crossfade subscription
  stopRun,      \* stop() calls made in a row, and the onStop emissions since the first
  endedNaturally, \* TRUE once the element has fired ended
  calls         \* number of public-method calls made so far

\* window.localStorage, which both controllers write through
\* LocalStorageController: "ok", or "full" when setItem() throws, or "down"
\* when getItem() and setItem() throw
VARIABLES storage

\* StoryController (src/src/story/story.controller.ts)
VARIABLES
  storyState,   \* this.storyState.value, the published story state
  persisted,    \* the Story Store's item under the key "state"
  jobs,         \* the microtask queue of the story controller's continuations
  waiting,      \* async nextChapter resolvers that have not answered yet
  ends,         \* number of end notifications so far
  lastWrite,    \* the state of this controller's last setItem() that went
                \* through; absent when there was none or when the item has
                \* since been removed or replaced
  validateState \* this.options.validateState: "none", or "shape" for a
                \* validator that wants currentChapter to be there

storyVars == <<storyState, persisted, jobs, waiting, ends, lastWrite, validateState>>

\* MediaControlsController (src/src/player/player.controller.ts, lines 318-382)
\* and navigator.mediaSession
VARIABLES
  handlers,      \* mediaSession's action handlers: for each action the player
                 \* its handler calls, "console.log", or "null"
  statusSubs,    \* players whose status the controller is subscribed to
  timeSubs,      \* players whose currentTime and totalTime it is subscribed to
  playbackState, \* navigator.mediaSession.playbackState
  positionState, \* the last setPositionState() that went through: <<duration,
                 \* position>>, <<>> when there was none
  metadata,      \* whether navigator.mediaSession.metadata is set
  attached,      \* the player of the last attachPlayer(), "none" after
                 \* detachPlayer() or clear(); the controller keeps no such field
  subjects       \* for each player the values of its status, currentTime and
                 \* totalTime subjects

mediaVars == <<handlers, statusSubs, timeSubs, playbackState, positionState,
               metadata, attached, subjects>>

vars == <<options, status, destroyed, volume, currentTime, totalTime, destroyEvent,
          fades, playerElement, events, micro, timers, stored, trace, nStop,
          autoStops, stopRun, endedNaturally, calls, storage, storyVars, mediaVars>>

NoValue == -1

\* The whole state as one record, so that a handler is a function from state
\* to state and a method body is the composition of its statements.
World ==
  [status |-> status, destroyed |-> destroyed, volume |-> volume,
   currentTime |-> currentTime, totalTime |-> totalTime,
   destroyEvent |-> destroyEvent, fades |-> fades, el |-> playerElement,
   events |-> events, micro |-> micro, timers |-> timers, stored |-> stored,
   trace |-> <<>>, nStop |-> nStop, autoStops |-> autoStops, stopRun |-> stopRun,
   endedNaturally |-> endedNaturally, calls |-> calls, storage |-> storage]

Commit(w) ==
  /\ status' = w.status
  /\ destroyed' = w.destroyed
  /\ volume' = w.volume
  /\ currentTime' = w.currentTime
  /\ totalTime' = w.totalTime
  /\ destroyEvent' = w.destroyEvent
  /\ fades' = w.fades
  /\ playerElement' = w.el
  /\ events' = w.events
  /\ micro' = w.micro
  /\ timers' = w.timers
  /\ stored' = w.stored
  /\ trace' = w.trace
  /\ nStop' = w.nStop
  /\ autoStops' = w.autoStops
  /\ stopRun' = w.stopRun
  /\ endedNaturally' = w.endedNaturally
  /\ calls' = w.calls
  /\ UNCHANGED <<options, storage, storyVars, mediaVars>>

Emit(w, e) == [w EXCEPT !.trace = Append(@, e)]

\* ---- the story controller (src/src/story/story.controller.ts) --------------
\* A story state is modelled by two of its fields: currentChapter, and one
\* more field, mark.  Undefined is the value of a field that is not there.
Undefined == "undefined"

\* {}, the value storyState is created with (line 38)
Blank == [currentChapter |-> Undefined, mark |-> Undefined]

\* the story the controller is given: intro leads to cave; cave's successor is
\* computed from the state; shore's successor is computed asynchronously; last
\* has no successor
ChapterIds == {"intro", "cave", "shore", "last"}

story ==
  [chapters |-> [intro |-> [nextChapter |-> "string"],
                 cave  |-> [nextChapter |-> "function"],
                 shore |-> [nextChapter |-> "async function"],
                 last  |-> [nextChapter |-> "null"]],
   initialState |-> [currentChapter |-> "intro", mark |-> Undefined]]

\* the id a chapter's nextChapter names, or the id its function returns
Successor(id, state) ==
  CASE id = "intro" -> "cave"
    [] id = "cave"  -> IF state.mark = "x" THEN "last" ELSE "shore"
    [] id = "shore" -> "intro"

\* this.currentChapter.value (lines 51-55): the id of the chapter of the
\* published state; "null" without a currentChapter, "undefined" for an id
\* that story.chapters does not have
CurrentChapter(state) ==
  IF state.currentChapter = Undefined THEN "null"
  ELSE IF state.currentChapter \in ChapterIds THEN state.currentChapter
  ELSE "undefined"

\* The Story Store's item is a JSON text, modelled by the sequence of the
\* name-value pairs it spells.  JSON.stringify leaves out the fields that are
\* undefined; JSON.parse gives back an object that lacks them.
\* the record of the last write
NoWrite == [present |-> FALSE, state |-> Blank]
Wrote(state) == [present |-> TRUE, state |-> state]

NoStoryItem == [present |-> FALSE, pairs |-> <<>>]

StringifyState(state) ==
  [present |-> TRUE,
   pairs   |-> SelectSeq(<<<<"currentChapter", state.currentChapter>>,
                           <<"mark", state.mark>>>>,
                         LAMBDA p : p[2] # Undefined)]

Field(pairs, name) ==
  IF \E i \in DOMAIN pairs : pairs[i][1] = name
  THEN pairs[CHOOSE i \in DOMAIN pairs : pairs[i][1] = name][2]
  ELSE Undefined

ParseState(item) ==
  [currentChapter |-> Field(item.pairs, "currentChapter"),
   mark           |-> Field(item.pairs, "mark")]

\* what loadState() returns: null, or the state it found
NotFound == [found |-> FALSE, state |-> Blank]

\* loadState() (lines 118-129) over LocalStorageController.get: a getItem()
\* that throws is caught and gives null, like no item and like an item the
\* validator turns down; without a validator whatever parses is the state
loadState(item, validate, store) ==
  IF store = "down" \/ ~item.present THEN NotFound
  ELSE LET value == ParseState(item)
       IN  IF validate = "shape" /\ value.currentChapter = Undefined THEN NotFound
           ELSE [found |-> TRUE, state |-> value]

\* the story controller's state as one record; call is the number of the call
\* the running code belongs to, 0 for the constructor's
Story ==
  [storyState |-> storyState, persisted |-> persisted, jobs |-> jobs,
   waiting |-> waiting, ends |-> ends, lastWrite |-> lastWrite,
   validateState |-> validateState,
   storage |-> storage, stored |-> stored, trace |-> <<>>, calls |-> calls,
   call |-> 0]

StoryCommit(s) ==
  /\ storyState' = s.storyState
  /\ persisted' = s.persisted
  /\ jobs' = s.jobs
  /\ waiting' = s.waiting
  /\ ends' = s.ends
  /\ lastWrite' = s.lastWrite
  /\ stored' = s.stored
  /\ trace' = s.trace
  /\ calls' = s.calls
  /\ UNCHANGED <<validateState, storage, options, status, destroyed, volume,
                 currentTime, totalTime, destroyEvent, fades, playerElement,
                 events, micro, timers, nStop, autoStops, stopRun, endedNaturally,
                 mediaVars>>

\* a continuation joins the microtask queue
Enqueue(s, job) == [s EXCEPT !.jobs = Append(@, job @@ [call |-> s.call])]

\* the promise jobs that run before a continuation does.  Awaiting an async
\* method that has awaited once itself (loadState over get, saveState over
\* set; also setState's promise seen from resetStory's failing await) takes
\* one job for the inner await and then the continuation
AfterInnerAwait == 1

\* `return p` in an async method, p a promise: one job to call p.then, and
\* the method's promise settles in the next
ReturnedPromise == 1

\* a rejection of set() reaches resetStory() through saveState's await,
\* setState's await and its own
ThroughTwoAwaits == 2

\* this.end.next()
endStoryTwice(s) == Emit(Emit([s EXCEPT !.ends = @ + 2], <<"end">>), <<"end">>)

endStory(s) == Emit([s EXCEPT !.ends = @ + 1], <<"end">>)

\* a promise of a public method settles: op names the method, x the chapter
\* it was heading for.  "none" is a promise nobody holds: a rejection of it is
\* an unhandled rejection
Settle(s, op, ok, x) ==
  IF op = "none"
  THEN IF ok THEN s ELSE Emit(s, <<"unhandledrejection">>)
  ELSE Emit(s, <<"settled", op, ok, x, s.call>>)

\* a setState() that does not wait for saveState(): the state is published
\* whether or not setItem() threw
setStatePublishesAnyway(s, state, op) ==
  LET s1 == IF s.storage = "ok"
            THEN Emit([s EXCEPT !.persisted = StringifyState(state), !.lastWrite = Wrote(state)],
                      <<"write", state>>)
            ELSE Emit(s, <<"writeFailed", state>>)
  IN  Enqueue(s1, [k |-> "publish", d |-> AfterInnerAwait, state |-> state, op |-> op])

\* setState(state) (lines 64-67) up to its await: saveState() has called
\* set(), which has run JSON.stringify and setItem().  The rest of it runs two
\* jobs later, and only if setItem() did not throw
setState(s, state, op) ==
  IF s.storage = "ok"
  THEN Enqueue(Emit([s EXCEPT !.persisted = StringifyState(state), !.lastWrite = Wrote(state)],
                    <<"write", state>>),
               [k |-> "publish", d |-> AfterInnerAwait, state |-> state, op |-> op])
  ELSE Enqueue(Emit(s, <<"writeFailed", state>>),
               [k |-> "settle", op |-> op, ok |-> FALSE, x |-> Undefined,
                d |-> IF op = "resetStory" THEN ThroughTwoAwaits ELSE AfterInnerAwait])

\* this.storyState.next(state), the end of setState: its promise is fulfilled;
\* resetStory(), which awaits it, returns in the next job
publish(s, job) ==
  LET s1 == Emit([s EXCEPT !.storyState = job.state], <<"publish", job.state>>)
  IN  IF job.op = "resetStory"
      THEN Enqueue(s1, [k |-> "settle", d |-> 0, op |-> "resetStory", ok |-> TRUE,
                        x |-> Undefined])
      ELSE Settle(s1, job.op, TRUE, job.state.currentChapter)

\* the update of updateState(update): an object to merge, or a function
Merge(old, update) ==
  [currentChapter |-> IF update.currentChapter # Undefined THEN update.currentChapter
                      ELSE old.currentChapter,
   mark           |-> IF update.mark # Undefined THEN update.mark ELSE old.mark]

Apply(update, old) ==
  CASE update.type = "object"     -> Merge(old, update.value)
    [] update.type = "setChapter" -> [old EXCEPT !.currentChapter = update.value]
    [] update.type = "toggleMark" ->
         [old EXCEPT !.mark = IF @ = "x" THEN Undefined ELSE "x"]

\* updateState(update) (lines 69-80) up to its await: loadState() has read the
\* store
updateState(s, update, op) ==
  Enqueue(s, [k |-> "updateTail", d |-> AfterInnerAwait, update |-> update, op |-> op,
              loaded |-> loadState(s.persisted, s.validateState, s.storage)])

updateTailFromPublished(s, job) ==
  LET newState == Apply(job.update, s.storyState)
  IN  Settle(setState(s, newState, "none"), job.op, TRUE, newState.currentChapter)

\* updateState after its await (lines 70-79): the published state stands in
\* when loadState() gave null; setState() is called and not awaited
updateTail(s, job) ==
  LET oldState == IF job.loaded.found THEN job.loaded.state ELSE s.storyState
      newState == Apply(job.update, oldState)
  IN  Settle(setState(s, newState, "none"), job.op, TRUE, newState.currentChapter)

\* setChapter(string) (lines 82-84): updateState() is called and not awaited
setChapter(s, string) ==
  updateState(s, [type |-> "setChapter", value |-> string], "none")

\* nextChapter() after the successor is known: `return this.setChapter(string)`
nextChapterTail(s, string) ==
  Enqueue(setChapter(s, string),
          [k |-> "settle", d |-> ReturnedPromise, op |-> "nextChapter", ok |-> TRUE,
           x |-> string])

\* nextChapter() (lines 86-107)
nextChapter(s) ==
  LET chapter == CurrentChapter(s.storyState)
  IN  IF chapter \notin ChapterIds THEN Settle(s, "nextChapter", TRUE, Undefined)
      ELSE LET rule == story.chapters[chapter].nextChapter
           IN  CASE rule = "null"   -> Settle(endStory(s), "nextChapter", TRUE, Undefined)
                 [] rule = "string" -> nextChapterTail(s, Successor(chapter, s.storyState))
                 [] rule = "function" ->
                      Enqueue(s, [k |-> "resolved", d |-> 0,
                                  x |-> Successor(chapter, s.storyState)])
                 [] rule = "async function" ->
                      [s EXCEPT !.waiting =
                         Append(@, [x |-> Successor(chapter, s.storyState),
                                    call |-> s.call])]

\* LocalStorageController.clearAll() removes every item whose key starts with
\* "audiowalk": the story state and the player's position alike
clearAll(s) ==
  [s EXCEPT !.persisted = NoStoryItem, !.stored = <<>>, !.lastWrite = NoWrite]

\* resetStory() (lines 109-112) up to its first await; Object.keys() of a
\* storage that is down throws
resetStory(s) ==
  IF s.storage = "down"
  THEN Enqueue(s, [k |-> "settle", d |-> 0, op |-> "resetStory", ok |-> FALSE,
                   x |-> Undefined])
  ELSE Enqueue(Emit(clearAll(s), <<"clearAll">>), [k |-> "resetTail", d |-> 0])

\* the constructor's callback on loadState() (lines 57-61)
loaded(s, job) ==
  IF job.loaded.found
  THEN Emit([s EXCEPT !.storyState = job.loaded.state], <<"publish", job.loaded.state>>)
  ELSE setState(s, story.initialState, "none")

\* the first job of the queue runs, or steps aside for the jobs it waits for
RunJob(s) ==
  LET job == Head(s.jobs)
      s0  == [s EXCEPT !.jobs = Tail(@), !.call = job.call]
  IN  IF job.d > 0
      THEN Emit(Enqueue(s0, [job EXCEPT !.d = @ - 1]), <<"later">>)
      ELSE LET s1 == Emit(s0, <<"job", job.k>>)
           IN  CASE job.k = "loaded"     -> loaded(s1, job)
                 [] job.k = "updateTail" -> updateTail(s1, job)
                 [] job.k = "publish"    -> publish(s1, job)
                 [] job.k = "settle"     -> Settle(s1, job.op, job.ok, job.x)
                 [] job.k = "resolved"   -> nextChapterTail(s1, job.x)
                 [] job.k = "resetTail"  -> setState(s1, story.initialState, "resetStory")

\* the story variables while no story controller is at work
StoryAtRest ==
  /\ storyState = Blank
  /\ persisted = NoStoryItem
  /\ jobs = <<>>
  /\ waiting = <<>>
  /\ ends = 0
  /\ lastWrite = NoWrite
  /\ validateState = "none"

\* ---- MediaControlsController ------------------------------------------------
\* The players that can be attached.  Of a player the controller uses the
\* methods play, pause, back, forward and seekTo and the subjects status,
\* currentTime and totalTime.
Players == {"first", "second"}

NoPlayer == "none"

\* the actions attachPlayer() registers a handler for (lines 334-344)
MediaActions ==
  {"play", "pause", "seekbackward", "seekforward", "previoustrack", "nexttrack", "seekto"}

\* the actions detachPlayer() sets the handler of to null (lines 370-373)
DetachedActions == {"play", "pause", "previoustrack", "nexttrack"}

\* a new PlayerController: status null, currentTime 0, totalTime null
NewSubjects == [status |-> "null", currentTime |-> 0, totalTime |-> NoValue]

Media ==
  [handlers |-> handlers, statusSubs |-> statusSubs, timeSubs |-> timeSubs,
   playbackState |-> playbackState, positionState |-> positionState,
   metadata |-> metadata, attached |-> attached, trace |-> <<>>]

MediaEmit(m, e) == [m EXCEPT !.trace = Append(@, e)]

MediaCall(m, name, arg) == MediaEmit(m, <<"media", name, arg>>)

\* the observer of player.status (lines 346-355)
statusObserver(m, player, s) ==
  IF s \in {"playing", "paused"}
  THEN MediaEmit([m EXCEPT !.playbackState = s], <<"playbackState", player, s>>)
  ELSE m

\* the observer of combineLatest([currentTime, totalTime]) (lines 357-364);
\* setPositionState() throws a TypeError for a position beyond the duration
timeObserver(m, player, t, total) ==
  LET duration == IF total = NoValue THEN 0 ELSE total
  IN  IF t <= duration
      THEN MediaEmit([m EXCEPT !.positionState = <<duration, t>>],
                     <<"positionState", player, duration, t>>)
      ELSE MediaEmit(m, <<"TypeError", player>>)

\* detachPlayer() (lines 367-374): playerDetachEvent ends the subscriptions
\* of attachPlayer(), and four of the handlers are set to null
detachPlayer(m) ==
  [m EXCEPT !.statusSubs = {}, !.timeSubs = {},
            !.handlers = [a \in MediaActions |->
                            IF a \in DetachedActions THEN "null" ELSE m.handlers[a]],
            !.attached = NoPlayer]

\* attachPlayer(player) (lines 331-365); a subscription to a BehaviorSubject
\* is given the current value at once
attachPlayer(m, player) ==
  LET m1 == detachPlayer(m)
      m2 == [m1 EXCEPT !.handlers = [a \in MediaActions |-> player],
                       !.attached = player]
      m3 == statusObserver([m2 EXCEPT !.statusSubs = @ \cup {player}], player,
                           subjects[player].status)
  IN  timeObserver([m3 EXCEPT !.timeSubs = @ \cup {player}], player,
                   subjects[player].currentTime, subjects[player].totalTime)

\* setMetadata(metadata) (lines 325-329)
setMetadata(m) ==
  [m EXCEPT !.metadata = TRUE, !.playbackState = "paused",
            !.handlers["play"] = "console.log"]

\* clear() (lines 376-381)
clear(m) == [detachPlayer(m) EXCEPT !.playbackState = "none", !.metadata = FALSE]

\* the method of the player that the handler of an action calls
Method(action) ==
  CASE action = "play"          -> "play"
    [] action = "pause"         -> "pause"
    [] action = "seekbackward"  -> "back"
    [] action = "seekforward"   -> "forward"
    [] action = "previoustrack" -> "back"
    [] action = "nexttrack"     -> "forward"
    [] action = "seekto"        -> "seekTo"

\* the system invokes the handler registered for an action
handle(m, action, details) ==
  LET h == m.handlers[action]
  IN  IF h = "console.log" THEN MediaEmit(m, <<"log", "play">>)
      ELSE IF action = "seekto" /\ (details.fastSeek \/ details.seekTime = NoValue)
      THEN m
      ELSE MediaEmit(m, <<"forward", h, Method(action),
                          IF action = "seekto" THEN details.seekTime ELSE NoValue>>)

\* the media controls before anything is attached
MediaAtRest ==
  /\ handlers = [a \in MediaActions |-> "null"]
  /\ statusSubs = {}
  /\ timeSubs = {}
  /\ playbackState = "none"
  /\ positionState = <<>>
  /\ metadata = FALSE
  /\ attached = NoPlayer
  /\ subjects = [player \in Players |-> NewSubjects]

\* A settled await: its continuation k (a sequence of steps still to run)
\* joins the microtask queue; an empty k has nothing left to run.  d is the
\* number of promise jobs that run before k does: each is a turn of the queue.
Schedule(w, k, d) ==
  IF k = <<>> THEN w ELSE [w EXCEPT !.micro = Append(@, [k |-> k, d |-> d])]

\* `await p` of a settled native promise p, or of the promise of an async
\* method that returned: the continuation is the next job queued
AwaitJobs == 0

\* `await el.play().catch(...)` (line 172): the catch handler's job, then the
\* continuation
AwaitCaughtJobs == 1

\* `await this.fadeToVolume(...)` (lines 283, 291): fadeToVolume is an async
\* method that returns a promise, which takes two jobs to settle the method's
\* own promise, then the continuation
AwaitFadeJobs == 2

\* ---- the audio element ----------------------------------------------------
\* A continuation awaiting a play() promise: k runs when it resolves; when it
\* rejects k runs only if the caller catches (preload), otherwise the awaiting
\* method rejects and the rest of it never runs.
Waiter(k, catches) ==
  [k |-> k, catches |-> catches, d |-> IF catches THEN AwaitCaughtJobs ELSE AwaitJobs]

RECURSIVE Resolved(_, _)
Resolved(w, ps) ==
  IF ps = <<>> THEN w ELSE Resolved(Schedule(w, Head(ps).k, Head(ps).d), Tail(ps))

RECURSIVE Rejected(_, _)
Rejected(w, ps) ==
  IF ps = <<>> THEN w
  ELSE Rejected(IF Head(ps).catches THEN Schedule(w, Head(ps).k, Head(ps).d)
                ELSE Emit(w, <<"rejected", Head(ps).k>>), Tail(ps))

\* a timeupdate listener reads the element when it runs, so a timeupdate
\* queued right behind another one is not queued again
QueueTimeupdate(q) ==
  IF q # <<>> /\ q[Len(q)] = <<"timeupdate">> THEN q ELSE Append(q, <<"timeupdate">>)

\* playerElement.volume = v, for v in [0, 1]
ElVolume(w, v) == Emit([w EXCEPT !.el.volume = v], <<"volume", v>>)

AtEnd(el) == el.loaded /\ el.currentTime >= Duration

\* playback reached the end of the track: the element queues one task that
\* fires timeupdate, pauses the element (firing pause) and fires ended
QueueEnded(w) ==
  [w EXCEPT !.events = Append(QueueTimeupdate(@), <<"ended">>)]

\* playerElement.currentTime = t
ElSeek(w, t) ==
  LET pos == IF w.el.loaded /\ t > Duration THEN Duration ELSE t
      w1  == Emit([w EXCEPT !.el.currentTime = pos], <<"seek", t>>)
  IN  IF ~w.el.loaded THEN w1
      ELSE IF pos >= Duration /\ ~w.el.paused THEN QueueEnded(w1)
      ELSE [w1 EXCEPT !.events = QueueTimeupdate(@)]

\* playerElement.pause()
ElPause(w) ==
  IF w.el.paused THEN Emit(w, <<"el.pause">>)
  ELSE LET w1 == Emit([w EXCEPT !.el.paused = TRUE, !.el.pending = <<>>], <<"el.pause">>)
           q  == Append(QueueTimeupdate(w1.events), <<"pause">>)
       IN  [w1 EXCEPT !.events =
              IF w.el.pending = <<>> THEN q ELSE Append(q, <<"reject", w.el.pending>>)]

\* playerElement.play(); ps holds the waiter awaiting its promise, or is empty
\* when the caller ignores the promise.  allowed = FALSE: the user agent
\* blocks playback (autoplay policy) and the promise is rejected at once.
\* play() on an element that has ended playback restarts from position 0.
ElPlay(w, ps, allowed) ==
  LET w0 == Emit(w, <<"el.play">>)
  IN  IF ~w.el.src \/ ~allowed THEN Rejected(w0, ps)
      ELSE
        LET w1 == IF AtEnd(w0.el)
                  THEN [w0 EXCEPT !.el.currentTime = 0, !.events = QueueTimeupdate(@)]
                  ELSE w0
            w2 == IF w1.el.paused
                  THEN [w1 EXCEPT !.el.paused = FALSE, !.events = Append(@, <<"play">>)]
                  ELSE w1
            all == w2.el.pending \o ps
        IN  IF w2.el.loaded
            THEN [w2 EXCEPT !.el.pending = <<>>,
                            !.events = IF all = <<>> THEN @ ELSE Append(@, <<"resolve", all>>)]
            ELSE [w2 EXCEPT !.el.pending = all]

\* The promise tasks among the queued tasks, settled at once when the element
\* loads a new source.
RECURSIVE SettleQueued(_, _)
SettleQueued(w, q) ==
  IF q = <<>> THEN w
  ELSE LET e == Head(q)
           w1 == IF e[1] = "resolve" THEN Resolved(w, e[2])
                 ELSE IF e[1] = "reject" THEN Rejected(w, e[2])
                 ELSE w
       IN  SettleQueued(w1, Tail(q))

\* playerElement.src = "": the media element load algorithm.  It settles the
\* queued promise tasks, removes every queued task of the element, pauses the
\* element without a pause event, rejects the pending play promises, and
\* resets the playback position, queueing timeupdate if that changed it.
\* From then on the src attribute is the empty string, which the guards
\* `!this.playerElement.src` read as no source.
ElUnload(w) ==
  LET w1 == Rejected(SettleQueued(Emit(w, <<"src", "">>), w.events), w.el.pending)
  IN  [w1 EXCEPT !.el = [src |-> FALSE, paused |-> TRUE, volume |-> w.el.volume,
                         currentTime |-> 0, loaded |-> FALSE, pending |-> <<>>],
                 !.events = IF w.el.currentTime # 0 THEN <<<<"timeupdate">>>> ELSE <<>>]


\* ---- the fade engine (fadeToVolume) ----------------------------------------
\* One live interval() subscription: the constant per-step delta, the target,
\* the steps still to take, and the continuation k of whoever awaits the fade.
Fade(step, target, k) == [step |-> step, target |-> target, left |-> FadeSteps, k |-> k]

\* the complete callback of a fade's subscription (lines 274-277): it runs
\* when take() has counted the last step and when takeUntil() ends the fade.
\* playerElement.volume = targetVolume throws for a target outside [0, 1];
\* resolve() is then never reached and the fade's promise never settles.
FadeComplete(w, f) ==
  IF InRange(f.target)
  THEN Schedule(Emit(ElVolume(w, f.target), <<"resolved", f>>), f.k, AwaitFadeJobs)
  ELSE Emit(w, <<"unsettled", f>>)

RECURSIVE CompleteAll(_, _)
CompleteAll(w, fs) ==
  IF fs = {} THEN w
  ELSE LET f == CHOOSE x \in fs : TRUE
       IN  CompleteAll(FadeComplete(w, f), fs \ {f})

\* this.fadeCancelEvent.next(): takeUntil(fadeCancelEvent) completes every
\* live fade
FadeCancel(w) == [CompleteAll(Emit(w, <<"fadeCancel">>), w.fades) EXCEPT !.fades = {}]

fadeToVolumeNoCancel(w, targetVolume, k) ==
  LET fadeOutStep == RDivInt(RSub(targetVolume, w.el.volume), FadeSteps)
  IN  IF fadeOutStep = RZero THEN Schedule(w, k, AwaitFadeJobs)
      ELSE Emit([w EXCEPT !.fades = @ \cup {Fade(fadeOutStep, targetVolume, k)}],
                <<"fade", targetVolume>>)

\* fadeToVolume(targetVolume), awaited by continuation k
fadeToVolume(w, targetVolume, k) ==
  LET w1 == FadeCancel(w)
      fadeOutStep == RDivInt(RSub(targetVolume, w1.el.volume), FadeSteps)
  IN  IF fadeOutStep = RZero THEN Schedule(w1, k, AwaitFadeJobs)
      ELSE Emit([w1 EXCEPT !.fades = @ \cup {Fade(fadeOutStep, targetVolume, k)}],
                <<"fade", targetVolume>>)

\* one emission of a fade's interval (lines 270-272), and the completion that
\* take(fadeOutSteps) makes of the last one
FadeStep(w, f) ==
  LET w1 == ElVolume(w, Clamp01(RAdd(w.el.volume, f.step)))
  IN  IF f.left = 1
      THEN FadeComplete([w1 EXCEPT !.fades = @ \ {f}], f)
      ELSE [w1 EXCEPT !.fades = (@ \ {f}) \cup {[f EXCEPT !.left = @ - 1]}]

\* fadeOut(), awaited by k: the steps "fadeOutTail" then k run once the fade
\* to 0 has resolved
fadeOut(w, k) == fadeToVolume(w, RZero, <<"fadeOutTail">> \o k)

\* ---- stop ------------------------------------------------------------------
StatusNext(w, s) == Emit([w EXCEPT !.status = s], <<"status", s>>)

OnStopNext(w) ==
  Emit([w EXCEPT !.nStop = @ + 1, !.stopRun.emits = @ + 1], <<"onStop">>)

\* the entry of stop(): whether this call finds a live session that has not ended
StopEntry(w) == Emit(w, <<"stop", ~w.destroyed /\ w.status # "ended">>)

stopEmitLast(w, fadeOut_, k) ==
  LET w0 == StopEntry(w)
      w2 == FadeCancel(w0)
      w3 == IF fadeOut_ THEN fadeOut(w2, <<"stopTail">> \o k)
            ELSE Schedule(ElSeek(ElPause(w2), 0), k, AwaitJobs)
  IN  IF ~w.destroyed /\ w.status # "ended"
      THEN OnStopNext(StatusNext(w3, "ended"))
      ELSE w3

\* stop({fadeOut}), awaited by k.  Without fadeOut the method has no await
\* that suspends: it runs to its end and k is scheduled.
stop(w, fadeOut_, k) ==
  LET w0 == StopEntry(w)
      w1 == IF ~w0.destroyed /\ w0.status # "ended"
            THEN OnStopNext(StatusNext(w0, "ended"))
            ELSE w0
      w2 == FadeCancel(w1)
  IN  IF fadeOut_ THEN fadeOut(w2, <<"stopTail">> \o k)
      ELSE Schedule(ElSeek(ElPause(w2), 0), k, AwaitJobs)

\* ---- the subjects and their subscribers -----------------------------------
\* ---- the Position Store (LocalStorageController) ----------------------------
\* The store holds text.  A text is a sequence of characters; NoItem stands
\* for no item under the key (getItem() returns null).
NoItem == <<>>

Digits == <<"0", "1", "2", "3", "4", "5", "6", "7", "8", "9">>

\* set(): JSON.stringify(value), for a position (a number, here a whole
\* number of units of time)
RECURSIVE Stringify(_)
Stringify(n) ==
  IF n < 10 THEN <<Digits[n + 1]>>
  ELSE Append(Stringify(n \div 10), Digits[(n % 10) + 1])

IsDigit(c) == \E d \in DOMAIN Digits : Digits[d] = c

\* the texts that parseData() (JSON.parse) reads as such a number: digits,
\* with no leading zero; any other text of the model parses to something
\* that is not a number, or does not parse and is returned as it is
IsNumberText(data) ==
  /\ data # <<>>
  /\ \A i \in DOMAIN data : IsDigit(data[i])
  /\ Len(data) > 1 => data[1] # "0"

RECURSIVE NumberOf(_)
NumberOf(data) ==
  IF data = <<>> THEN 0
  ELSE 10 * NumberOf(SubSeq(data, 1, Len(data) - 1))
         + (CHOOSE d \in DOMAIN Digits : Digits[d] = data[Len(data)]) - 1

\* get(key, (value) => typeof value === "number") (line 134): null when
\* there is no item or when the item is not a number
get(data) ==
  IF data = NoItem THEN NoValue
  ELSE IF IsNumberText(data) THEN NumberOf(data)
  ELSE NoValue

savePositionPauses(w, t) ==
  IF ~w.el.src THEN w
  ELSE IF w.storage = "ok" THEN Emit([w EXCEPT !.stored = Stringify(t)], <<"save", t>>)
  ELSE LET w1 == Emit(w, <<"saveFailed", t>>)
       IN  [w1 EXCEPT !.el.paused = TRUE, !.events = Append(@, <<"pause">>)]

\* savePosition(currentTime): set() runs JSON.stringify and setItem() at once;
\* when setItem() throws, the promise of savePosition() rejects and nobody
\* handles it
savePosition(w, t) ==
  IF ~w.el.src THEN w
  ELSE IF w.storage = "ok" THEN Emit([w EXCEPT !.stored = Stringify(t)], <<"save", t>>)
  ELSE Emit(w, <<"saveFailed", t>>)

\* options.fadeTime, in ms: fadeOutSteps = fadeTime / fadeOutInterval
fadeTime == FadeSteps * fadeOutInterval

\* fadeTime / 1000 seconds, in units of time
FadeWindow == (fadeTime * UnitsPerSecond) \div 1000

\* the subscriber of combineLatest([currentTime, totalTime]) (lines 115-123)
Crossfade(w) ==
  IF /\ options.fadeOut /\ ~options.loop
     /\ ~w.destroyEvent
     /\ w.totalTime # NoValue /\ w.totalTime # 0
     /\ w.currentTime >= w.totalTime - FadeWindow
     /\ w.status # "ended"
  THEN stop([w EXCEPT !.autoStops = @ + 1], options.fadeOut, <<>>)
  ELSE w

\* this.currentTime.next(t): the autoSave subscriber, then combineLatest's
CurrentTimeNext(w, t) ==
  LET w1 == [w EXCEPT !.currentTime = t]
      w2 == IF options.autoSave /\ ~w.destroyEvent THEN savePosition(w1, t) ELSE w1
  IN  Crossfade(w2)

\* this.totalTime.next(t)
TotalTimeNext(w, t) == Crossfade([w EXCEPT !.totalTime = t])

\* ---- destroyNow -----------------------------------------------------------
destroyNowResetsStatus(w) ==
  LET w1 == Emit(w, <<"destroyNow">>)
      w2 == [CompleteAll(w1, w1.fades) EXCEPT !.fades = {}, !.destroyEvent = TRUE,
                                              !.status = "null"]
  IN  ElPause(ElUnload(w2))

\* destroyNow(): destroyEvent.next() ends the constructor's subscriptions and,
\* through takeUntil(destroyEvent), completes every live fade; then the source
\* is cleared and the element paused.
destroyNow(w) ==
  LET w1 == Emit(w, <<"destroyNow">>)
      w2 == [CompleteAll(w1, w1.fades) EXCEPT !.fades = {}, !.destroyEvent = TRUE]
  IN  ElPause(ElUnload(w2))

\* ---- continuations of awaits ---------------------------------------------
Ok(w) == [w |-> w, ok |-> TRUE]
Threw(w) == [w |-> Emit(w, <<"throw">>), ok |-> FALSE]

\* this.playerElement.volume = this.volume
RestoreVolume(w) == IF InRange(w.volume) THEN Ok(ElVolume(w, w.volume)) ELSE Threw(w)

openTailFromStart(w) == RestoreVolume(ElSeek(w, 0))

\* open() after its await of localStorage.get (lines 136-139)
openTail(w) ==
  LET position == get(w.stored)
      w1 == IF position # NoValue /\ position # 0 /\ options.autoSave
            THEN ElSeek(w, position)
            ELSE ElSeek(w, 0)
  IN  RestoreVolume(w1)

\* fadeIn() (lines 288-292); nothing of play() is left after it
fadeIn(w) == fadeToVolume(ElPlay(ElVolume(w, NearSilent), <<>>, TRUE), w.volume, <<>>)

fadeOutTailSilent(w) == Ok(ElPause(w))

\* fadeOut() after its await of fadeToVolume(0) (lines 284-285)
fadeOutTail(w) == RestoreVolume(ElPause(w))

\* preload() after its await of play() (lines 173-174)
preloadTail(w) == RestoreVolume(ElPause(w))

RunStep(w, step) ==
  CASE step = "openTail" -> openTail(w)
    [] step = "playTail" -> RestoreVolume(w)
    [] step = "playTailFade" -> Ok(fadeIn(w))
    [] step = "preloadTail" -> preloadTail(w)
    [] step = "fadeOutTail" -> fadeOutTail(w)
    [] step = "pauseTail" -> Ok(ElPause(w))
    [] step = "stopTail" -> Ok(ElSeek(w, 0))
    [] step = "destroyNow" -> Ok(destroyNow(w))

\* One turn of the microtask queue.  The entry at its head either has promise
\* jobs still ahead of it, and one of them runs, or runs the first step of
\* its continuation k; the rest of k is the continuation of the caller's
\* await, unless the step threw.
RunMicro(w) ==
  LET e  == Head(w.micro)
      w0 == [w EXCEPT !.micro = Tail(@)]
  IN  IF e.d > 0
      THEN Emit([w0 EXCEPT !.micro = Append(@, [e EXCEPT !.d = @ - 1])], <<"job">>)
      ELSE LET r == RunStep(Emit(w0, <<"micro", Head(e.k)>>), Head(e.k))
           IN  IF r.ok THEN Schedule(r.w, Tail(e.k), AwaitJobs)
               ELSE IF Tail(e.k) = <<>> THEN r.w
               ELSE Emit(r.w, <<"rejected", Tail(e.k)>>)

\* ---- listeners of the audio element (constructor, lines 67-109) -----------
playListener(w) == StatusNext(Emit(w, <<"onPlay">>), "playing")

pauseListener(w) == StatusNext(Emit(w, <<"onPause">>), "paused")

endedListenerStops(w) ==
  LET w1 == savePosition([w EXCEPT !.endedNaturally = TRUE], 0)
      w2 == IF ~options.fadeOut
            THEN StatusNext(OnStopNext(w1), "ended")
            ELSE w1
      w3 == IF options.keepPlayer /\ ~options.loop
            THEN ElPause(ElPlay(ElSeek(w2, 0), <<>>, TRUE))
            ELSE w2
  IN  IF options.loop THEN ElPlay(ElSeek(w3, 0), <<>>, TRUE) ELSE w3

endedListener(w) ==
  LET w1 == savePosition([w EXCEPT !.endedNaturally = TRUE], 0)
      w2 == IF ~options.fadeOut /\ ~options.loop
            THEN StatusNext(OnStopNext(w1), "ended")
            ELSE w1
      w3 == IF options.keepPlayer /\ ~options.loop
            THEN ElPause(ElPlay(ElSeek(w2, 0), <<>>, TRUE))
            ELSE w2
  IN  IF options.loop THEN ElPlay(ElSeek(w3, 0), <<>>, TRUE) ELSE w3

\* playerElement.duration is NaN until the metadata has loaded
HasDuration(w) == w.el.loaded /\ Duration # 0

loadedmetadataListener(w) ==
  IF HasDuration(w) THEN TotalTimeNext(w, Duration) ELSE w

timeupdateListener(w) ==
  LET w1 == CurrentTimeNext(w, w.el.currentTime)
  IN  IF HasDuration(w1) THEN TotalTimeNext(w1, Duration) ELSE w1

\* the task the element queued when playback reached the end: if it is still
\* playing at the end it pauses, firing pause and rejecting the pending play
\* promises; then it fires ended
EndedTask(w) ==
  LET w1 == IF ~w.el.paused /\ AtEnd(w.el)
            THEN Rejected(pauseListener([w EXCEPT !.el.paused = TRUE, !.el.pending = <<>>]),
                          w.el.pending)
            ELSE w
  IN  endedListener(w1)

RunEvent(w, e) ==
  LET w1 == Emit(w, <<"event", e[1]>>)
  IN  CASE e[1] = "play" -> playListener(w1)
        [] e[1] = "pause" -> pauseListener(w1)
        [] e[1] = "ended" -> EndedTask(w1)
        [] e[1] = "loadedmetadata" -> loadedmetadataListener(w1)
        [] e[1] = "timeupdate" -> timeupdateListener(w1)
        [] e[1] = "resolve" -> Resolved(w1, e[2])
        [] e[1] = "reject" -> Rejected(w1, e[2])

\* ---- public methods ---------------------------------------------------------
\* A call starts the step's trace and counts as a call.  stop() calls made in
\* a row are counted, with the onStop emissions since the first of them.
Call(w, name, args) ==
  LET run == IF name = "stop"
             THEN IF w.stopRun.stops = 0 THEN [stops |-> 1, emits |-> 0]
                  ELSE [w.stopRun EXCEPT !.stops = 2]
             ELSE [stops |-> 0, emits |-> 0]
  IN  Emit([w EXCEPT !.calls = @ + 1, !.stopRun = run], <<"call", name, args>>)

NoFileOpened(w) == Emit(w, <<"error", "No file opened">>)

playUnguarded(w, fadeIn_, allowed) ==
  IF w.status = "playing" THEN w
  ELSE ElPlay(FadeCancel(w),
              <<Waiter(<<IF fadeIn_ THEN "playTailFade" ELSE "playTail">>, FALSE)>>,
              allowed)

\* play({fadeIn})
play(w, fadeIn_, allowed) ==
  IF ~w.el.src THEN NoFileOpened(w)
  ELSE IF w.status = "playing" THEN w
  ELSE ElPlay(FadeCancel(w),
              <<Waiter(<<IF fadeIn_ THEN "playTailFade" ELSE "playTail">>, FALSE)>>,
              allowed)

pauseWhenEnded(w, fadeOut_) ==
  IF ~w.el.src THEN NoFileOpened(w)
  ELSE LET w1 == FadeCancel(Emit(StatusNext(w, "paused"), <<"onPause">>))
       IN  IF fadeOut_ THEN fadeOut(w1, <<"pauseTail">>) ELSE ElPause(w1)

\* pause({fadeOut})
pause(w, fadeOut_) ==
  IF ~w.el.src THEN NoFileOpened(w)
  ELSE IF w.status = "ended" THEN w
  ELSE LET w1 == FadeCancel(Emit(StatusNext(w, "paused"), <<"onPause">>))
       IN  IF fadeOut_ THEN fadeOut(w1, <<"pauseTail">>) ELSE ElPause(w1)

\* seekTo(seconds)
seekTo(w, seconds) ==
  IF ~w.el.src THEN NoFileOpened(w)
  ELSE IF w.status = "ended" THEN w
  ELSE ElSeek(w, seconds)

setVolumeStoresApplied(w, v, fade) ==
  LET w1 == [w EXCEPT !.volume = Clamp01(v)]
  IN  IF fade THEN fadeToVolume(w1, v, <<>>) ELSE ElVolume(w1, Clamp01(v))

\* setVolume(volume, {fade})
setVolume(w, v, fade) ==
  LET w1 == [w EXCEPT !.volume = v]
  IN  IF fade THEN fadeToVolume(w1, v, <<>>) ELSE ElVolume(w1, Clamp01(v))

\* preload(): play() is awaited and a rejection of it is caught
preload(w, allowed) ==
  ElPlay(ElVolume(w, NearSilent), <<Waiter(<<"preloadTail">>, TRUE)>>, allowed)

destroyFlagsLate(w, now, fadeOut_) ==
  LET w1 == IF w.status # "ended" THEN stop(w, fadeOut_, <<"destroyNow">>)
            ELSE IF ~w.el.paused
            THEN Emit([w EXCEPT !.timers = Append(@, FadeSteps)], <<"setTimeout">>)
            ELSE destroyNow(w)
  IN  [w1 EXCEPT !.destroyed = TRUE]

\* destroy({now, fadeOut}); params.now is read nowhere.  setTimeout's delay is
\* options.fadeTime, that is FadeSteps periods of a fade's interval.
destroy(w, now, fadeOut_) ==
  LET w1 == [w EXCEPT !.destroyed = TRUE]
  IN  IF w1.status # "ended" THEN stop(w1, fadeOut_, <<"destroyNow">>)
      ELSE IF ~w1.el.paused
      THEN Emit([w1 EXCEPT !.timers = Append(@, FadeSteps)], <<"setTimeout">>)
      ELSE destroyNow(w1)

\* the default of back(seconds = 10) and forward(seconds = 10)
SkipSeconds == 10

\* back()
back(w) ==
  LET position == w.el.currentTime
      seconds  == SkipSeconds * UnitsPerSecond
  IN  seekTo(w, IF position - seconds > 0 THEN position - seconds ELSE 0)

\* forward()
forward(w) ==
  LET position == w.el.currentTime
      seconds  == SkipSeconds * UnitsPerSecond
  IN  seekTo(w, IF HasDuration(w)
                THEN (IF position + seconds < Duration
                      THEN position + seconds ELSE Duration)
                ELSE position + seconds)

\* ---- construction ---------------------------------------------------------
\* defaultOptions (lines 41-50); fadeTime is FadeSteps * fadeOutInterval.  The
\* fadeIn option is only the default of play()'s parameter, which the calls
\* below pass explicitly, as they do fadeOut for pause(), stop() and destroy().
defaultOptions ==
  [autoSave |-> FALSE, loop |-> FALSE, fadeOut |-> FALSE, keepPlayer |-> FALSE,
   volume |-> ROne]

OptionSets ==
  { defaultOptions,
    [defaultOptions EXCEPT !.fadeOut = TRUE],
    [defaultOptions EXCEPT !.loop = TRUE],
    [defaultOptions EXCEPT !.keepPlayer = TRUE],
    [defaultOptions EXCEPT !.autoSave = TRUE] }

\* what an earlier session may have left in the Position Store
StoredBefore(o) == IF o.autoSave THEN {NoItem, Stringify(Duration - 1)} ELSE {NoItem}

\* inputs of the calls
SeekTargets == {1}
VolumeInputs == {<<1, 2>>, <<3, 2>>}

\* The state when the constructor returns (lines 59-128): the listeners and
\* subscriptions are in place, open() has set the source and is suspended at
\* its await of localStorage.get, the element has not loaded anything yet.
PlayerInit(optionSets, storedBefore) ==
  /\ options \in optionSets
  /\ status = "null"
  /\ destroyed = FALSE
  /\ volume = options.volume
  /\ currentTime = 0
  /\ totalTime = NoValue
  /\ destroyEvent = FALSE
  /\ fades = {}
  /\ playerElement = [src |-> TRUE, paused |-> TRUE, volume |-> options.volume,
                      currentTime |-> 0, loaded |-> FALSE, pending |-> <<>>]
  /\ events = <<>>
  /\ micro = <<[k |-> <<"openTail">>, d |-> AwaitJobs]>>
  /\ timers = <<>>
  /\ stored \in storedBefore[options]
  /\ trace = <<>>
  /\ nStop = 0
  /\ autoStops = 0
  /\ stopRun = [stops |-> 0, emits |-> 0]
  /\ endedNaturally = FALSE
  /\ calls = 0

InitWith(optionSets, storedBefore) ==
  /\ PlayerInit(optionSets, storedBefore)
  /\ storage = "ok"
  /\ StoryAtRest
  /\ MediaAtRest

Init == InitWith(OptionSets, [o \in OptionSets |-> StoredBefore(o)])

\* ---- reading the trace of a step -----------------------------------------
Has(t, tag) == \E i \in DOMAIN t : t[i][1] = tag

Called(t, name) == t # <<>> /\ t[1][1] = "call" /\ t[1][2] = name

Queued(q, k) == \E i \in DOMAIN q : q[i].k = k

\* ---- steps -------------------------------------------------------------------
MayCall == calls < MaxCalls

\* a task of the event loop runs when no microtask is pending
Idle == micro = <<>>

Play(fadeIn_, allowed) ==
  MayCall /\ Commit(play(Call(World, "play", <<fadeIn_>>), fadeIn_, allowed))

Pause(fadeOut_) ==
  MayCall /\ Commit(pause(Call(World, "pause", <<fadeOut_>>), fadeOut_))

Stop(fadeOut_) ==
  MayCall /\ Commit(stop(Call(World, "stop", <<fadeOut_>>), fadeOut_, <<>>))

SeekTo(t) ==
  MayCall /\ Commit(seekTo(Call(World, "seekTo", <<t>>), t))

Back == MayCall /\ Commit(back(Call(World, "back", <<>>)))

Forward == MayCall /\ Commit(forward(Call(World, "forward", <<>>)))

SetVolume(v, fade) ==
  MayCall /\ Commit(setVolume(Call(World, "setVolume", <<v, fade>>), v, fade))

Preload(allowed) ==
  MayCall /\ Commit(preload(Call(World, "preload", <<>>), allowed))

Destroy(now, fadeOut_) ==
  MayCall /\ Commit(destroy(Call(World, "destroy", <<now, fadeOut_>>), now, fadeOut_))

Microtask == micro # <<>> /\ Commit(RunMicro(World))

\* the element fires its next queued task
Deliver ==
  /\ Idle
  /\ events # <<>>
  /\ Commit(RunEvent([World EXCEPT !.events = Tail(@)], Head(events)))

\* 100 ms pass for a fade: its interval emits, and the pending timers of
\* destroy() are 100 ms nearer
Tick ==
  /\ Idle
  /\ \E f \in fades :
       LET w == Emit(World, <<"tick", f>>)
           w1 == [w EXCEPT !.timers = [i \in DOMAIN @ |-> IF @[i] > 0 THEN @[i] - 1 ELSE 0]]
       IN  Commit(FadeStep(w1, f))

\* the oldest setTimeout(destroyNow) of destroy() fires: its delay has passed,
\* which with a live fade means the fade's intervals have counted it down
Timeout ==
  /\ Idle
  /\ timers # <<>>
  /\ Head(timers) = 0 \/ fades = {}
  /\ Commit(destroyNow(Emit([World EXCEPT !.timers = Tail(@)], <<"timeout">>)))

\* the element finishes loading its metadata
Load ==
  /\ Idle
  /\ playerElement.src /\ ~playerElement.loaded
  /\ LET w  == Emit(World, <<"load">>)
         pos == IF w.el.currentTime > Duration THEN Duration ELSE w.el.currentTime
         w1 == [w EXCEPT !.el.loaded = TRUE, !.el.currentTime = pos,
                         !.events = Append(@, <<"loadedmetadata">>)]
         w2 == IF ~w1.el.paused /\ w1.el.pending # <<>>
               THEN [w1 EXCEPT !.el.pending = <<>>,
                               !.events = Append(@, <<"resolve", w1.el.pending>>)]
               ELSE w1
     IN  Commit(IF ~w2.el.paused /\ AtEnd(w2.el) THEN QueueEnded(w2) ELSE w2)

\* playback advances by 100 ms
Advance ==
  /\ Idle
  /\ playerElement.src /\ playerElement.loaded /\ ~playerElement.paused
  /\ playerElement.currentTime < Duration
  /\ \A i \in DOMAIN events : events[i][1] # "timeupdate"
  /\ LET w  == Emit(World, <<"advance">>)
         w1 == [w EXCEPT !.el.currentTime = @ + 1]
     IN  Commit(IF AtEnd(w1.el) THEN QueueEnded(w1)
                ELSE [w1 EXCEPT !.events = QueueTimeupdate(@)])

Next ==
  \/ \E f \in BOOLEAN, a \in BOOLEAN : Play(f, a)
  \/ \E f \in BOOLEAN : Pause(f)
  \/ \E f \in BOOLEAN : Stop(f)
  \/ \E t \in SeekTargets : SeekTo(t)
  \/ Back
  \/ Forward
  \/ \E v \in VolumeInputs, f \in BOOLEAN : SetVolume(v, f)
  \/ \E a \in BOOLEAN : Preload(a)
  \/ \E n \in BOOLEAN, f \in BOOLEAN : Destroy(n, f)
  \/ Microtask
  \/ Deliver
  \/ Tick
  \/ Timeout
  \/ Load
  \/ Advance

Spec == Init /\ [][Next]_vars

\* ---- play({fadeIn: true}) at once followed by pause({fadeOut: true}) ------
\* The two calls are made back to back in one task, on a session created with
\* a volume of ScenarioVolumes and otherwise the default options; nothing
\* else is called, and the element, the fades and the microtasks run their
\* course.
ScenarioVolumes == {<<1, 2>>, ROne}

ScenarioOptions == {[defaultOptions EXCEPT !.volume = v] : v \in ScenarioVolumes}

ScenarioInit == InitWith(ScenarioOptions, [o \in ScenarioOptions |-> {NoItem}])

ScenarioPlay(allowed) == calls = 0 /\ Play(TRUE, allowed)

ScenarioPause == calls = 1 /\ Called(trace, "play") /\ Pause(TRUE)

\* no step separates the two calls
Apart == calls # 1

ScenarioNext ==
  \/ \E a \in BOOLEAN : ScenarioPlay(a)
  \/ ScenarioPause
  \/ Apart /\ Microtask
  \/ Apart /\ Deliver
  \/ Apart /\ Tick
  \/ Apart /\ Load
  \/ Apart /\ Advance

ScenarioSpec == ScenarioInit /\ [][ScenarioNext]_vars

\* ---- opening a session over what the Position Store holds ------------------
\* number of calls made on the session
OpenCalls == 1

\* an item that is not a number: the JSON text of a boolean
NotNumeric == <<"t", "r", "u", "e">>

\* what the store may hold under the track's key when the session is created:
\* nothing, something that is not a number, or a position an earlier session
\* saved
StoredValues == {NoItem, NotNumeric} \cup {Stringify(p) : p \in 0..Duration}

OpenInit == InitWith(OptionSets, [o \in OptionSets |-> StoredValues])

OpenNext ==
  \/ /\ calls < OpenCalls
     /\ \/ \E f \in BOOLEAN, a \in BOOLEAN : Play(f, a)
        \/ \E f \in BOOLEAN : Pause(f)
        \/ \E f \in BOOLEAN : Stop(f)
        \/ \E t \in SeekTargets : SeekTo(t)
        \/ Back
        \/ Forward
        \/ \E v \in VolumeInputs, f \in BOOLEAN : SetVolume(v, f)
        \/ \E a \in BOOLEAN : Preload(a)
        \/ \E n \in BOOLEAN, f \in BOOLEAN : Destroy(n, f)
  \/ Microtask
  \/ Deliver
  \/ Tick
  \/ Load
  \/ Advance

OpenSpec == OpenInit /\ [][OpenNext]_vars

\* ---- a Position Store whose writes may fail ----------------------------------
\* number of calls made on the session
SaveCalls == 2

SaveOptions == {[defaultOptions EXCEPT !.autoSave = TRUE]}

SaveInit == InitWith(SaveOptions, [o \in SaveOptions |-> StoredBefore(o)])

\* the storage runs out of room, or gets room again
StorageChanges ==
  /\ storage' = IF storage = "ok" THEN "full" ELSE "ok"
  /\ trace' = <<>>
  /\ UNCHANGED <<options, status, destroyed, volume, currentTime, totalTime,
                 destroyEvent, fades, playerElement, events, micro, timers, stored,
                 nStop, autoStops, stopRun, endedNaturally, calls, storyVars,
                 mediaVars>>

SaveNext ==
  \/ /\ calls < SaveCalls
     /\ \/ \E f \in BOOLEAN, a \in BOOLEAN : Play(f, a)
        \/ \E f \in BOOLEAN : Pause(f)
        \/ \E f \in BOOLEAN : Stop(f)
        \/ \E t \in SeekTargets : SeekTo(t)
        \/ \E n \in BOOLEAN, f \in BOOLEAN : Destroy(n, f)
  \/ Microtask
  \/ Deliver
  \/ Tick
  \/ Load
  \/ Advance
  \/ StorageChanges

SaveSpec == SaveInit /\ [][SaveNext]_vars

\* ---- play() while the fade of pause({fadeOut: true}) is running --------------
\* A session with the default options is played, paused with a fade-out once
\* it is playing, and played again while that fade is live.
ResumeInit == InitWith({defaultOptions}, [o \in {defaultOptions} |-> {NoItem}])

ResumePlay == calls = 0 /\ Play(FALSE, TRUE)

ResumePause ==
  /\ calls = 1
  /\ status = "playing" /\ ~playerElement.paused
  /\ Pause(TRUE)

\* the fade that fadeOut() awaits is live
FadingOut == \E f \in fades : f.k # <<>> /\ f.k[1] = "fadeOutTail"

ResumeAgain == calls = 2 /\ FadingOut /\ Play(FALSE, TRUE)

ResumeNext ==
  \/ ResumePlay
  \/ ResumePause
  \/ ResumeAgain
  \/ Microtask
  \/ Deliver
  \/ Tick
  \/ Load
  \/ Advance

ResumeSpec == ResumeInit /\ [][ResumeNext]_vars

\* ---- one pause() on a playing session ----------------------------------------
\* play(), and once the element and the status are playing, one pause(), with
\* or without a fade-out; no other call is made.
PauseOncePause ==
  /\ calls = 1
  /\ status = "playing" /\ ~playerElement.paused
  /\ \E f \in BOOLEAN : Pause(f)

PauseOnceNext ==
  \/ ResumePlay
  \/ PauseOncePause
  \/ Microtask
  \/ Deliver
  \/ Tick
  \/ Load
  \/ Advance

PauseOnceSpec == ResumeInit /\ [][PauseOnceNext]_vars

\* ---- preload() -------------------------------------------------------------
\* setVolume(v) without a fade, then one preload(), which the device allows
\* or blocks; no other call is made.
PreloadInit == InitWith(OptionSets, [o \in OptionSets |-> {NoItem}])

PreloadVolume == calls = 0 /\ \E v \in VolumeInputs \cup {ROne} : SetVolume(v, FALSE)

PreloadCall == calls = 1 /\ \E allowed \in BOOLEAN : Preload(allowed)

PreloadNext ==
  \/ PreloadVolume
  \/ PreloadCall
  \/ Microtask
  \/ Deliver
  \/ Load
  \/ Advance

PreloadSpec == PreloadInit /\ [][PreloadNext]_vars

\* ---- the media controls -----------------------------------------------------
\* Players are attached to and detached from the media controls, the system
\* sends transport intents, and the players' subjects change.
MediaCommit(m, subj) ==
  /\ handlers' = m.handlers
  /\ statusSubs' = m.statusSubs
  /\ timeSubs' = m.timeSubs
  /\ playbackState' = m.playbackState
  /\ positionState' = m.positionState
  /\ metadata' = m.metadata
  /\ attached' = m.attached
  /\ subjects' = subj
  /\ trace' = m.trace
  /\ UNCHANGED <<options, status, destroyed, volume, currentTime, totalTime,
                 destroyEvent, fades, playerElement, events, micro, timers, stored,
                 nStop, autoStops, stopRun, endedNaturally, calls, storage, storyVars>>

MediaInit == InitWith({defaultOptions}, [o \in {defaultOptions} |-> {NoItem}])

SetMetadata == MediaCommit(setMetadata(MediaCall(Media, "setMetadata", NoPlayer)), subjects)

AttachPlayer(player) ==
  MediaCommit(attachPlayer(MediaCall(Media, "attachPlayer", player), player), subjects)

DetachPlayer == MediaCommit(detachPlayer(MediaCall(Media, "detachPlayer", NoPlayer)), subjects)

Clear == MediaCommit(clear(MediaCall(Media, "clear", NoPlayer)), subjects)

SeekDetails == [fastSeek : BOOLEAN, seekTime : {NoValue, 1}]

\* the system sends a transport intent; it has a handler to call
Intent(action, details) ==
  /\ handlers[action] # "null"
  /\ action # "seekto" => details = [fastSeek |-> FALSE, seekTime |-> NoValue]
  /\ MediaCommit(handle(MediaEmit(Media, <<"intent", action>>), action, details), subjects)

\* player.status.next(s)
PlayerStatus(player, s) ==
  /\ subjects[player].status # s
  /\ LET m == MediaEmit(Media, <<"status.next", player, s>>)
     IN  MediaCommit(IF player \in statusSubs THEN statusObserver(m, player, s) ELSE m,
                     [subjects EXCEPT ![player].status = s])

\* player.currentTime.next(t)
PlayerTime(player, t) ==
  /\ subjects[player].currentTime # t
  /\ LET m == MediaEmit(Media, <<"currentTime.next", player, t>>)
     IN  MediaCommit(IF player \in timeSubs
                     THEN timeObserver(m, player, t, subjects[player].totalTime)
                     ELSE m,
                     [subjects EXCEPT ![player].currentTime = t])

\* player.totalTime.next(total)
PlayerTotal(player, total) ==
  /\ subjects[player].totalTime # total
  /\ LET m == MediaEmit(Media, <<"totalTime.next", player, total>>)
     IN  MediaCommit(IF player \in timeSubs
                     THEN timeObserver(m, player, subjects[player].currentTime, total)
                     ELSE m,
                     [subjects EXCEPT ![player].totalTime = total])

MediaNext ==
  \/ SetMetadata
  \/ \E player \in Players : AttachPlayer(player)
  \/ DetachPlayer
  \/ Clear
  \/ \E action \in MediaActions, details \in SeekDetails : Intent(action, details)
  \/ \E player \in Players, s \in {"playing", "paused", "ended"} : PlayerStatus(player, s)
  \/ \E player \in Players, t \in {0, 1} : PlayerTime(player, t)
  \/ \E player \in Players, total \in {NoValue, 1} : PlayerTotal(player, total)

MediaSpec == MediaInit /\ [][MediaNext]_vars

\* ---- a looping session -------------------------------------------------------
\* number of calls made on the session
LoopCalls == 2

LoopOptions == {[defaultOptions EXCEPT !.loop = TRUE]}

LoopInit == InitWith(LoopOptions, [o \in LoopOptions |-> {NoItem}])

LoopNext ==
  \/ /\ calls < LoopCalls
     /\ \/ \E f \in BOOLEAN, a \in BOOLEAN : Play(f, a)
        \/ \E f \in BOOLEAN : Pause(f)
        \/ \E f \in BOOLEAN : Stop(f)
        \/ \E t \in SeekTargets : SeekTo(t)
        \/ Forward
        \/ \E n \in BOOLEAN, f \in BOOLEAN : Destroy(n, f)
  \/ Microtask
  \/ Deliver
  \/ Tick
  \/ Load
  \/ Advance

\* the step being taken runs a microtask, or delivers a task of the element:
\* the trace of a step starts with what took it
MicrotaskRan == trace' # <<>> /\ trace'[1][1] \in {"job", "micro"}

DeliverRan == trace' # <<>> /\ trace'[1][1] = "event"

\* The event loop runs the continuations that are due and delivers the tasks
\* the element has queued: WF_vars(Microtask) and WF_vars(Deliver), written
\* with what enables the two actions (a microtask is pending; none is and a
\* task is queued) in place of ENABLED.
LoopSpec ==
  /\ LoopInit /\ [][LoopNext]_vars
  /\ []<>(micro = <<>>) \/ []<><<MicrotaskRan>>_vars
  /\ []<>(~(Idle /\ events # <<>>)) \/ []<><<DeliverRan>>_vars

\* ---- the story controller's steps ---------------------------------------------
\* number of calls made on the controller
StoryCalls == 2

\* what the store may hold when the controller is constructed: nothing, an
\* object without currentChapter, a state of this story, a state whose chapter
\* this story does not have
Ghost == [currentChapter |-> "ghost", mark |-> Undefined]

Elsewhere == [currentChapter |-> "shore", mark |-> "x"]

PersistedBefore ==
  {NoStoryItem, StringifyState(Blank), StringifyState(Elsewhere), StringifyState(Ghost)}

\* The state when the constructor returns (lines 46-62): loadState() has read
\* the store and the callback on it has not run
StoryInit ==
  /\ PlayerInit({defaultOptions}, [o \in {defaultOptions} |-> {Stringify(Duration - 1)}])
  /\ storage \in {"ok", "full", "down"}
  /\ validateState \in {"none", "shape"}
  /\ persisted \in PersistedBefore
  /\ storyState = Blank
  /\ jobs = <<[k |-> "loaded", d |-> AfterInnerAwait, call |-> 0,
               loaded |-> loadState(persisted, validateState, storage)]>>
  /\ waiting = <<>>
  /\ ends = 0
  /\ lastWrite = NoWrite
  /\ MediaAtRest

StoryCall(s, name, args) ==
  Emit([s EXCEPT !.calls = @ + 1, !.call = s.calls + 1], <<"call", name, args>>)

MayCallStory == calls < StoryCalls

Updates == {[type |-> "object", value |-> [currentChapter |-> Undefined, mark |-> "x"]],
            [type |-> "toggleMark"]}

SetChapter(string) ==
  /\ MayCallStory
  /\ LET s == setChapter(StoryCall(Story, "setChapter", <<string>>), string)
     IN  StoryCommit(Settle(s, "setChapter", TRUE, string))

UpdateState(update) ==
  MayCallStory /\
  StoryCommit(updateState(StoryCall(Story, "updateState", <<update>>), update, "updateState"))

SetState(state) ==
  MayCallStory /\
  StoryCommit(setState(StoryCall(Story, "setState", <<state>>), state, "setState"))

NextChapter ==
  MayCallStory /\ StoryCommit(nextChapter(StoryCall(Story, "nextChapter", <<>>)))

ResetStory ==
  MayCallStory /\ StoryCommit(resetStory(StoryCall(Story, "resetStory", <<>>)))

Job == jobs # <<>> /\ StoryCommit(RunJob(Story))

\* the promise of an async nextChapter function is fulfilled
Answer ==
  /\ waiting # <<>>
  /\ StoryCommit(Enqueue([Story EXCEPT !.waiting = Tail(@), !.call = Head(waiting).call],
                         [k |-> "resolved", d |-> 0, x |-> Head(waiting).x]))

\* another window of the application writes its story state while this one
\* has nothing in flight
OtherWindow ==
  /\ jobs = <<>> /\ waiting = <<>>
  /\ storage = "ok"
  /\ persisted # StringifyState(Elsewhere)
  /\ StoryCommit(Emit([Story EXCEPT !.persisted = StringifyState(Elsewhere),
                                    !.lastWrite = NoWrite],
                      <<"storage">>))

StoryNext ==
  \/ \E string \in {"cave", "ghost"} : SetChapter(string)
  \/ \E update \in Updates : UpdateState(update)
  \/ SetState([currentChapter |-> "last", mark |-> Undefined])
  \/ NextChapter
  \/ ResetStory
  \/ Job
  \/ Answer
  \/ OtherWindow
  \/ StorageChanges

StorySpec == StoryInit /\ [][StoryNext]_vars

\* the step just taken was open()'s continuation
Opened(t) == t # <<>> /\ t[1][1] = "micro" /\ t[1][2] = "openTail"

\* both calls made, and nothing pending: no microtask, no task of the
\* element, no fade, no play() promise, the metadata loaded
Settled ==
  /\ calls = 2
  /\ micro = <<>> /\ events = <<>> /\ fades = {}
  /\ playerElement.loaded /\ playerElement.pending = <<>>

\* ---- claims ----------------------------------------------------------------

\* C1: at most one fade is live (stepping the device volume) in every
\* reachable state: whatever starts a fade has first completed the fade in
\* flight.
C1_AtMostOneFade == Cardinality(fades) <= 1

\* a fade was started in the step that ended another one, and is the only one
C1_Witness ==
  /\ Cardinality(fades) = 1
  /\ \E i, j \in DOMAIN trace :
       i < j /\ trace[i][1] = "resolved" /\ trace[j][1] = "fade"

\* C2: in every step that starts a fade, each fade that was in flight has its
\* promise resolved in that step, before the new fade is set up (so before
\* the new fade's first volume step).
C2_SupersededFadeResolves ==
  [][\A j \in DOMAIN trace' :
       trace'[j][1] = "fade" =>
         \A a \in fades :
           \E i \in 1..(j - 1) : trace'[i][1] = "resolved" /\ trace'[i][2] = a]_vars

\* C3: with loop disabled, a status of Ended is never followed by Playing or
\* Paused.
C3_EndedIsTerminal ==
  [][(~options.loop /\ status = "ended") => status' \notin {"playing", "paused"}]_vars

\* C4: two stop() calls in a row, with no other call between them, emit one
\* stop notification at most, wherever the element's events fall.
C4_SecondStopIsSilent == stopRun.stops = 2 => stopRun.emits <= 1

\* C5: a stop() that finds a live session not yet Ended sets the status to
\* Ended and emits onStop as the first things it does, before it touches the
\* element or a fade, and the status is Ended when the step is over, the fade
\* not having taken a step.
C5_StopEndsFirst ==
  \A s \in DOMAIN trace :
    (trace[s][1] = "stop" /\ trace[s][2]) =>
      /\ s + 2 <= Len(trace)
      /\ trace[s + 1][1] = "status" /\ trace[s + 1][2] = "ended"
      /\ trace[s + 2][1] = "onStop"
      /\ status = "ended"
      /\ \A f \in fades : f.target = RZero => f.left = FadeSteps

\* stop({fadeOut: true}) on a playing session: Ended, the fade not yet
\* stepped, the element still playing
C5_Witness ==
  /\ \E s \in DOMAIN trace : trace[s][1] = "stop" /\ trace[s][2]
  /\ status = "ended"
  /\ \E f \in fades : f.left = FadeSteps /\ f.target = RZero
  /\ ~playerElement.paused

\* C6: the crossfade subscription calls stop() once per session at most.
C6_AutoStopOnce == ~destroyed => autoStops <= 1

\* C7: once destroyNow() has run, no step other than a call changes status,
\* currentTime or totalTime, emits a notification, takes a fade step or
\* writes a position.
C7_NothingAfterTeardown ==
  [][(destroyEvent /\ calls' = calls) =>
       /\ status' = status
       /\ currentTime' = currentTime
       /\ totalTime' = totalTime
       /\ stored' = stored
       /\ ~Has(trace', "onPlay") /\ ~Has(trace', "onPause") /\ ~Has(trace', "onStop")
       /\ ~Has(trace', "tick")
       /\ ~Has(trace', "save")]_vars

\* C8: destroy() on a session already torn down changes nothing: no fade
\* starts, no notification, the element and the status stay as they are.
C8_SecondDestroyNoOp ==
  [][(destroyEvent /\ Called(trace', "destroy")) =>
       /\ fades' = fades
       /\ playerElement' = playerElement
       /\ status' = status
       /\ nStop' = nStop
       /\ ~Has(trace', "onPause") /\ ~Has(trace', "onPlay")]_vars

C10_NowReleasesAtOnce ==
  [][(Called(trace', "destroy") /\ trace'[1][3][1]
        /\ status = "ended" /\ ~playerElement.paused) => destroyEvent']_vars

\* C11: on a session torn down, seekTo(), back() and forward() are ignored
\* without an error and without touching the element, while play() and
\* pause() fail with an error.
C11_SeeksIgnoredAfterTeardown ==
  [][destroyEvent =>
       /\ (Called(trace', "seekTo") \/ Called(trace', "back") \/ Called(trace', "forward"))
            => (~Has(trace', "error") /\ playerElement' = playerElement)
       /\ (Called(trace', "play") \/ Called(trace', "pause"))
            => Has(trace', "error")]_vars

\* C12: in the scenario, once everything has settled the status is Paused
\* and the element is paused.
C12_EndsPaused == Settled => (status = "paused" /\ playerElement.paused)

\* C13: in the scenario, from the first call on, the element's volume is
\* never above the target volume, neither after a step nor within one.
C13_NeverAboveTarget ==
  calls >= 1 =>
    /\ RLeq(playerElement.volume, volume)
    /\ \A i \in DOMAIN trace : trace[i][1] = "volume" => RLeq(trace[i][2], volume)

\* C14 as claimed: in the scenario, once everything has settled the
\* element's volume is 0.
C14_EndsSilent == Settled => playerElement.volume = RZero

\* C14 as amended: in the scenario, once everything has settled the
\* element's volume is the target volume again.
C14_EndsAtTarget == Settled => playerElement.volume = volume

\* settled with the element paused by the fade-out, its volume back at a
\* target volume that is neither 0 nor 1
C14_Witness ==
  /\ Settled
  /\ playerElement.paused /\ status = "paused"
  /\ volume = <<1, 2>>
  /\ playerElement.volume = volume

\* C15: every value the controller assigns to playerElement.volume lies in
\* [0, 1]: no step assigns a value that the element refuses, neither at the
\* completion or cancellation of a fade nor when the target volume is
\* restored.
C15_WritesInRange ==
  \A i \in DOMAIN trace :
    /\ trace[i][1] = "volume" => InRange(trace[i][2])
    /\ trace[i][1] \notin {"unsettled", "throw"}

\* C16: setVolume(v) without fade leaves the element's volume at v clamped
\* to [0, 1] and the target volume at v itself.
C16_SetVolumeClamps ==
  (Called(trace, "setVolume") /\ ~trace[1][3][2]) =>
    LET v == trace[1][3][1]
    IN  /\ volume = v
        /\ playerElement.volume =
             IF RLeq(v, RZero) THEN RZero ELSE IF RLeq(ROne, v) THEN ROne ELSE v

\* C17: open()'s continuation leaves the element's position at the stored
\* position when autoSave is on and the store holds a position above 0, and
\* at 0 otherwise: nothing stored, a value that is not a number, or autoSave
\* off.
C17_OpenResumes ==
  [][Opened(trace') =>
       /\ \A p \in 1..Duration :
            (options.autoSave /\ stored = Stringify(p)) => playerElement'.currentTime = p
       /\ (~options.autoSave \/ stored \in {NoItem, NotNumeric, Stringify(0)})
            => playerElement'.currentTime = 0]_vars

\* a session with autoSave has just resumed at the stored position
C17_Witness ==
  /\ Opened(trace)
  /\ options.autoSave
  /\ stored = Stringify(Duration - 1)
  /\ playerElement.currentTime = Duration - 1

\* setVolume(1.5) has just run: the element at 1, the target at 1.5
C16_Witness ==
  /\ Called(trace, "setVolume") /\ ~trace[1][3][2]
  /\ trace[1][3][1] = <<3, 2>>
  /\ volume = <<3, 2>>
  /\ playerElement.volume = ROne

\* C18: with autoSave on, once the track has ended naturally the Position
\* Store holds 0 for the track, and keeps holding it.
C18_EndedStaysAtStart ==
  (options.autoSave /\ endedNaturally) => stored = Stringify(0)

\* C19: play(), pause(), seekTo(), back() and forward() on a session whose
\* element has no source fail with the error "No file opened" and change
\* neither the status, the element, the target volume nor a fade in flight,
\* and queue nothing.
C19_NoSourceFails ==
  [][(/\ ~playerElement.src
      /\ \E name \in {"play", "pause", "seekTo", "back", "forward"} :
           Called(trace', name)) =>
       /\ Has(trace', "error")
       /\ status' = status
       /\ playerElement' = playerElement
       /\ volume' = volume
       /\ fades' = fades
       /\ events' = events /\ micro' = micro]_vars

\* play() has just failed on a session with no source, a fade in flight
C19_Witness ==
  /\ Called(trace, "play") /\ Has(trace, "error")
  /\ ~playerElement.src
  /\ fades # {}

\* C20: play() while the status is Playing, and pause() or seekTo() while it
\* is Ended, change neither the status, the element's position, playing state
\* or volume, nor a fade in flight; they emit no notification and queue
\* nothing.
C20_GuardedCallsAreNoOps ==
  [][(\/ Called(trace', "play") /\ status = "playing"
      \/ (Called(trace', "pause") \/ Called(trace', "seekTo")) /\ status = "ended") =>
       /\ status' = status
       /\ playerElement' = playerElement
       /\ volume' = volume
       /\ currentTime' = currentTime
       /\ fades' = fades
       /\ events' = events /\ micro' = micro
       /\ ~Has(trace', "onPlay") /\ ~Has(trace', "onPause") /\ ~Has(trace', "onStop")
       /\ ~Has(trace', "fadeCancel")]_vars

\* play() has just returned at once on a playing session with a source, a
\* fade in flight
C20_Witness ==
  /\ Called(trace, "play") /\ Len(trace) = 1
  /\ status = "playing"
  /\ playerElement.src
  /\ fades # {}

\* C21: the status is always one of uninitialized (null), Playing, Paused and
\* Ended, and once it is not null no step makes it null again.
C21_StatusNeverReset ==
  [][/\ status' \in {"null", "playing", "paused", "ended"}
     /\ status # "null" => status' # "null"]_vars

\* a session that has left the uninitialized status has been torn down
C21_Witness == status \in {"playing", "paused", "ended"} /\ destroyEvent

\* C22: a write of the position that fails is dropped.  The step in which it
\* fails leaves the store as it was and otherwise does what it does when the
\* write succeeds: same status, same element, same queued tasks and fades.
\* Nothing but a sample writes the store, so the write is not made again; and
\* with the storage working, the next sample is written.
C22_FailedWriteDropped ==
  [][/\ Has(trace', "saveFailed") =>
          LET w == RunEvent([World EXCEPT !.events = Tail(@), !.storage = "ok"],
                            Head(events))
          IN  /\ stored' = stored
              /\ status' = w.status
              /\ playerElement' = w.el
              /\ events' = w.events /\ micro' = w.micro
              /\ fades' = w.fades /\ timers' = w.timers
              /\ currentTime' = w.currentTime /\ totalTime' = w.totalTime
              /\ nStop' = w.nStop /\ destroyEvent' = w.destroyEvent
     /\ stored' # stored => Has(trace', "save")
     /\ (/\ storage = "ok" /\ ~destroyEvent /\ playerElement.src
         /\ trace' # <<>> /\ trace'[1][1] = "event" /\ trace'[1][2] = "timeupdate")
          => stored' = Stringify(playerElement.currentTime)]_vars

\* a sample has just failed to be written while the track is playing
C22_Witness ==
  /\ Has(trace, "saveFailed")
  /\ status = "playing" /\ ~playerElement.paused
  /\ playerElement.currentTime > 0

\* the step just taken ran the job k of the story controller
Ran(t, k) == t # <<>> /\ t[1] = <<"job", k>>

\* the step just taken settled the promise of the method op
SettledNow(t, op, ok) ==
  \E i \in DOMAIN t : t[i][1] = "settled" /\ t[i][2] = op /\ t[i][3] = ok

\* C23: nextChapter() on a chapter whose nextChapter is null emits one end
\* notification and changes neither the published state nor the persisted
\* one, at once or later: it queues nothing.
C23_NullRuleOnlyEnds ==
  [][(/\ Called(trace', "nextChapter")
      /\ CurrentChapter(storyState) \in ChapterIds
      /\ story.chapters[CurrentChapter(storyState)].nextChapter = "null")
       => /\ ends' = ends + 1
          /\ storyState' = storyState
          /\ persisted' = persisted
          /\ jobs' = jobs /\ waiting' = waiting
          /\ SettledNow(trace', "nextChapter", TRUE)]_vars

\* nextChapter() has just been called on the last chapter
C23_Witness ==
  /\ Called(trace, "nextChapter")
  /\ storyState.currentChapter = "last"
  /\ ends = 1

\* C24: when the promise of nextChapter() is fulfilled for a chapter whose
\* successor is X, the published state's currentChapter is X and the persisted
\* state's is too.
C24_SettledMeansAdvanced ==
  [][\A i \in DOMAIN trace' :
       (trace'[i][1] = "settled" /\ trace'[i][2] = "nextChapter" /\ trace'[i][3]
          /\ trace'[i][4] # Undefined)
         => /\ storyState'.currentChapter = trace'[i][4]
            /\ persisted'.present
            /\ ParseState(persisted').currentChapter = trace'[i][4]]_vars

\* the initial load has finished: the constructor's callback has run, and so
\* has the setState() it may have called
InitialLoadFinished == \A j \in DOMAIN jobs : jobs[j].call # 0

\* C25: once the initial load has finished, the published state's
\* currentChapter is a key of story.chapters.
C25_ChapterExists ==
  InitialLoadFinished => storyState.currentChapter \in ChapterIds

\* C26: updateState() reads the store when it is called; what it found there
\* is the state it updates, and the published state stands in only when it
\* found nothing valid.  The result of the merge or of the function is
\* written to the store and is published two jobs later.
C26_UpdatesPersistedState ==
  [][/\ Called(trace', "updateState") =>
          jobs'[Len(jobs')].loaded = loadState(persisted, validateState, storage)
     /\ (Ran(trace', "updateTail") /\ storage = "ok") =>
          LET job      == Head(jobs)
              oldState == IF job.loaded.found THEN job.loaded.state ELSE storyState
              newState == Apply(job.update, oldState)
          IN  /\ persisted' = StringifyState(newState)
              /\ jobs'[Len(jobs')].k = "publish"
              /\ jobs'[Len(jobs')].state = newState
     /\ Ran(trace', "publish") => storyState' = Head(jobs).state]_vars

\* updateState() has just written a state made from the persisted one, which
\* was not the published one
C26_Witness ==
  /\ Ran(trace, "updateTail")
  /\ Has(trace, "write")
  /\ storyState = [currentChapter |-> "last", mark |-> Undefined]
  /\ persisted = StringifyState([currentChapter |-> "shore", mark |-> Undefined])

\* C27: when the promise of resetStory() is fulfilled and no method has been
\* called since resetStory() was, the persisted state and the published state
\* are the story's initial state.
C27_ResetRestoresInitial ==
  [][(\E i \in DOMAIN trace' :
        /\ trace'[i][1] = "settled" /\ trace'[i][2] = "resetStory" /\ trace'[i][3]
        /\ trace'[i][5] = calls') =>
       /\ persisted' = StringifyState(story.initialState)
       /\ storyState' = story.initialState]_vars

\* C28: the constructor's callback publishes the persisted state when
\* loadState() found one; when it found none (no item, an item the validator
\* turned down, a read that failed) the initial state is on its way to being
\* published.
C28_InitialLoad ==
  [][Ran(trace', "loaded") =>
       IF Head(jobs).loaded.found
       THEN storyState' = Head(jobs).loaded.state
       ELSE /\ \E j \in DOMAIN jobs' : /\ jobs'[j].k = "publish"
                                         /\ jobs'[j].call = 0
                                         /\ jobs'[j].state = story.initialState
            /\ ~Has(trace', "writeFailed")]_vars

\* C29: a state whose write has failed is published all the same.
C29_PublishedDespiteFailure ==
  [][\A i \in DOMAIN trace' :
       trace'[i][1] = "writeFailed" =>
         \E j \in DOMAIN jobs' : /\ jobs'[j].k = "publish"
                                 /\ jobs'[j].state = trace'[i][2]]_vars

\* C30: a fade takes FadeSteps steps of its constant delta, the difference
\* between its target and the volume it started from divided by FadeSteps,
\* one for each tick of its interval; the last tick leaves the element's
\* volume at the target and resolves the fade's promise.
C30_FadeRunsToTarget ==
  [][/\ \A i \in DOMAIN trace' :
          trace'[i][1] = "tick" =>
            LET f == trace'[i][2]
            IN  IF f.left = 1
                THEN /\ playerElement'.volume = f.target
                     /\ Has(trace', "resolved")
                     /\ f \notin fades'
                ELSE /\ playerElement'.volume = Clamp01(RAdd(playerElement.volume, f.step))
                     /\ [f EXCEPT !.left = @ - 1] \in fades'
     /\ \A f \in fades' :
          (Has(trace', "fade") /\ ~Has(trace', "tick")) =>
              /\ f.left = FadeSteps
              /\ f.step = RDivInt(RSub(f.target, playerElement'.volume), FadeSteps)
              /\ f.step # RZero]_vars

\* the step just taken delivered the element's event e
Fired(t, e) == t # <<>> /\ t[1] = <<"event", e>>

\* C31: with loop on, the step that delivers ended does not set the status to
\* ended and emits no onStop; it leaves the element at position 0 and
\* playing, with its play event queued if the element had paused at the end
\* of the track; and on a session that has not been destroyed, has no call
\* in progress (no fade running, no continuation queued) and gets no further
\* call, the status is playing later on.
C31_LoopRestarts ==
  /\ [][(options.loop /\ Fired(trace', "ended")) =>
          /\ \A i \in DOMAIN trace' :
               trace'[i] # <<"status", "ended">> /\ trace'[i] # <<"onStop">>
          /\ playerElement.src =>
               /\ playerElement'.currentTime = 0
               /\ ~playerElement'.paused
               /\ \/ \E i \in DOMAIN events' : events'[i] = <<"play">>
                  \/ ~Has(trace', "onPause") /\ status' = status]_vars
  /\ [](( /\ options.loop /\ Fired(trace, "ended")
          /\ ~destroyed /\ calls = LoopCalls
          /\ fades = {} /\ micro = <<>>) => <>(status = "playing"))

\* a looping track has just ended by itself and been restarted
C31_Witness ==
  /\ options.loop /\ Fired(trace, "ended")
  /\ ~destroyed /\ calls = LoopCalls
  /\ fades = {} /\ micro = <<>>
  /\ ~playerElement.paused /\ playerElement.currentTime = 0

\* C32: when play() has been called during the fade of pause({fadeOut: true})
\* and nothing is pending any more (no microtask, no task of the element, no
\* fade, no play() promise) on a track that has not reached its end, the
\* element is playing and the status is playing.
C32_ResumeWins ==
  (/\ calls = 3
   /\ micro = <<>> /\ events = <<>> /\ fades = {}
   /\ playerElement.loaded /\ playerElement.pending = <<>>
   /\ ~endedNaturally)
    => (~playerElement.paused /\ status = "playing")

\* C33: in a step in which a call (a new fade, play, pause, stop) cancels a
\* fade in flight, the cancelled fade writes nothing to the element's volume,
\* and a fade started by that call takes its steps from the volume the
\* element had before the call: step = (target - that volume) / FadeSteps.
C33_NoVolumeJump ==
  [][(/\ trace' # <<>> /\ trace'[1][1] = "call"
      /\ fades # {} /\ Has(trace', "fadeCancel")) =>
       /\ \A i \in DOMAIN trace' :
            (trace'[i][1] = "resolved" /\ trace'[i][2] \in fades) =>
              ~(i > 1 /\ trace'[i - 1] = <<"volume", trace'[i][2].target>>)
       /\ \A g \in fades' :
            g.step = RDivInt(RSub(g.target, playerElement.volume), FadeSteps)]_vars

\* C34: on a session that is not destroyed, with nothing pending (no
\* microtask of a call, no fade, no teardown timer, no play() promise, no
\* undelivered task of the element), the status is playing exactly when the
\* element is playing, and a status of paused or ended means it is not.
C34_StatusMatchesDevice ==
  (/\ ~destroyed
   /\ micro = <<>> /\ events = <<>> /\ fades = {} /\ timers = <<>>
   /\ playerElement.pending = <<>>)
    => /\ (status = "playing") <=> ~playerElement.paused
       /\ status \in {"paused", "ended"} => playerElement.paused

\* C35: a pause() that finds the session playing emits onPause once and sets
\* the status to paused once: the step of the call does both exactly once,
\* and no later step does either again, the step of a natural end apart
\* (the element pauses itself there).
C35_OnePauseNotification ==
  [][/\ Called(trace', "pause") =>
          /\ Cardinality({i \in DOMAIN trace' : trace'[i] = <<"onPause">>}) = 1
          /\ Cardinality({i \in DOMAIN trace' : trace'[i] = <<"status", "paused">>}) = 1
     /\ (calls = 2 /\ ~Fired(trace', "ended")) =>
          \A i \in DOMAIN trace' :
            trace'[i] # <<"onPause">> /\ trace'[i] # <<"status", "paused">>]_vars

\* C36: with autoSave off no step of a session writes to the Position Store:
\* no step calls localStorage.set, and the stored item stays as it was.
C36_NoWriteWithoutAutoSave ==
  [][~options.autoSave => (~Has(trace', "save") /\ stored' = stored)]_vars

\* C37: from the call of preload() on, no step changes the status and none
\* emits onPlay, onPause or onStop; the step that runs preload() to its end
\* does not throw (its promise is not rejected) and leaves the element's
\* volume at the target volume this.volume.
C37_PreloadSilent ==
  [][/\ calls' = 2 =>
          /\ status' = status
          /\ \A i \in DOMAIN trace' :
               trace'[i][1] \notin {"onPlay", "onPause", "onStop"}
     /\ (trace' # <<>> /\ trace'[1] = <<"micro", "preloadTail">>) =>
          /\ ~Has(trace', "throw")
          /\ playerElement'.volume = volume']_vars

\* C38: while no story operation is pending (no continuation queued, no
\* nextChapter function unanswered), the published state is the state this
\* controller wrote last, and the store holds that state's JSON text; this
\* holds however the calls before overlapped.  A store that was emptied by
\* resetStory or rewritten by another window since the last write is not
\* covered.
C38_PublishedIsLastWrite ==
  (jobs = <<>> /\ waiting = <<>> /\ lastWrite.present)
    => /\ storyState = lastWrite.state
       /\ persisted = StringifyState(lastWrite.state)

\* both calls made, the second one's publish has just brought the controller
\* to rest
C38_Witness ==
  /\ jobs = <<>> /\ waiting = <<>> /\ lastWrite.present
  /\ calls = StoryCalls
  /\ Ran(trace, "publish")
  /\ storyState = lastWrite.state /\ storyState # story.initialState

\* C39: resetStory() leaves the items outside the story namespace as they
\* are: the saved playback position is the same after the call as before.
C39_ResetKeepsPositions ==
  [][Called(trace', "resetStory") => stored' = stored]_vars

\* C40: what the media controls forward or show belongs to the attached
\* player: in every step, a transport intent is forwarded only to the player
\* attached at the end of the step, and only that player's status and times
\* reach playbackState and the position state.  After detachPlayer() no
\* player is attached, after attachPlayer(other) the other one is.
C40_DetachedPlayerCutOff ==
  [][\A i \in DOMAIN trace' :
       (/\ trace'[i][1] \in {"forward", "playbackState", "positionState"}
        /\ trace'[i][2] \in Players)
         => trace'[i][2] = attached']_vars

=============================================================================
